---- MODULE Spec2Model ----
(***************************************************************************)
(* Upload / feedback state machine of the Lifty page                        *)
(* (src/frontend/src/pages/index.tsx, component Home).                      *)
(*                                                                          *)
(* The React state of the component is the first six variables.  The rest  *)
(* is the environment the handlers act on: the browser's table of live     *)
(* object URLs, the outstanding fetch requests (each with the file and the *)
(* category its handleUpload call closed over), the armed setInterval      *)
(* estimators, the pending setTimeout resets, whether the component is     *)
(* mounted, and the videoUrl the registered useEffect cleanup closed over. *)
(***************************************************************************)
EXTENDS Integers, FiniteSets, Sequences, TLC

\* ---------------------------------------------------------------- bounds
MaxFiles == 2
MaxUrls == 3
MaxRequests == 2
MaxTimers == 2

\* ------------------------------------------------------ program constants
NoFile == 0
NoUrl == 0
ProgressCap == 90
ProgressDone == 100
MaxIncrement == 15

Files == 1..MaxFiles
Urls == 1..MaxUrls
RequestIds == 1..MaxRequests

Exercises == {"squat", "deadlift", "pushup", "plank", "lunge"}

\* Math.random() * 15 lies in [0, 15): the smallest, a middle and the
\* largest whole increment.
Increments == {0, MaxIncrement \div 2, MaxIncrement - 1}

\* ------------------------------------------------------------ JSON values
\* A decoded JSON value is a tagged record; undefined is what a property
\* access yields when the property is absent.
JNull == [t |-> "null"]
JUndef == [t |-> "undef"]
JNum(n) == [t |-> "num", n |-> n]
JStr(str) == [t |-> "str", s |-> str]
JArr(items) == [t |-> "arr", items |-> items]
JObj(fields) == [t |-> "obj", fields |-> fields]

\* v[k] for a value that is neither null nor undefined.
Get(v, k) ==
    IF v.t = "obj" /\ k \in DOMAIN v.fields THEN v.fields[k] ELSE JUndef

\* JavaScript truthiness.
Truthy(v) ==
    CASE v.t \in {"null", "undef"} -> FALSE
      [] v.t = "num" -> v.n # 0
      [] v.t = "str" -> v.s # ""
      [] OTHER -> TRUE

IsArray(v) == v.t = "arr"

\* One element of feedback_per_rep as the backend sends it.
Rep(i, score, notes, metrics) ==
    JObj([rep |-> JNum(i), score |-> JNum(score), feedback |-> JArr(notes),
          metrics |-> JObj(metrics)])

EmptyFeedback == JArr(<<>>)
OneStringList == JArr(<<JStr("fix your knees")>>)
EmptyObject == JObj(<<>>)

\* The report of the end-to-end scenario: 2 reps, overall score 85.
ScenarioReport ==
    JObj([reps_detected |-> JNum(2), overall_score |-> JNum(85),
          feedback_per_rep |-> JArr(<<
              Rep(1, 90, <<JStr("good depth")>>, [knee_angle |-> JNum(92)]),
              Rep(2, 80, <<JStr("slight lean")>>, <<>>)>>),
          summary |-> JObj([recommendations |->
                              JArr(<<JStr("keep chest up")>>)])])

\* A report with three per-rep findings and no recommendations.
ThreeRepReport ==
    JObj([reps_detected |-> JNum(3), overall_score |-> JNum(72),
          feedback_per_rep |-> JArr(<<
              Rep(1, 85, <<JStr("good depth")>>, <<>>),
              Rep(2, 70, <<JStr("knees cave in")>>, <<>>),
              Rep(3, 55, <<JStr("shallow")>>, <<>>)>>)])

\* A report whose second finding has no feedback (notes) field.
ReportMissingNotes ==
    JObj([reps_detected |-> JNum(2), overall_score |-> JNum(60),
          feedback_per_rep |-> JArr(<<
              Rep(1, 85, <<JStr("good depth")>>, <<>>),
              JObj([rep |-> JNum(2), score |-> JNum(70)])>>)])

\* A report with one finding of the given score.
ScoreReport(score) ==
    JObj([reps_detected |-> JNum(1), overall_score |-> JNum(score),
          feedback_per_rep |-> JArr(<<Rep(1, score, <<>>, <<>>)>>)])

ScoreSamples == {0, 59, 60, 79, 80, 100}

\* Bodies of no known shape.
UnrelatedObject == JObj([status |-> JStr("queued")])
PerRepNotList == JObj([feedback_per_rep |-> JStr("none")])
ListOfNumbers == JArr(<<JNum(1), JNum(2)>>)
UnknownShapes ==
    {JNum(7), JNum(0), JStr("ok"), UnrelatedObject, PerRepNotList,
     ListOfNumbers}

\* Decoded response bodies of the upload state machine: JSON null, [], a
\* one-string list, a structured per-rep report.
Payloads == {JNull, EmptyFeedback, OneStringList, ScenarioReport}

\* Decoded response bodies the feedback section is rendered for.
RenderPayloads ==
    Payloads \cup {EmptyObject, ThreeRepReport, ReportMissingNotes}
             \cup {ScoreReport(sc) : sc \in ScoreSamples} \cup UnknownShapes

VARIABLES file, uploading, feedback, videoUrl, progress, selectedExercise,
          mounted, effectUrl, live, requests, intervals, timers, lastEvent,
          shownRequest, player

vars == <<file, uploading, feedback, videoUrl, progress, selectedExercise,
          mounted, effectUrl, live, requests, intervals, timers, lastEvent,
          shownRequest, player>>

\* ---------------------------------------------------------------- helpers

Min(a, b) == IF a < b THEN a ELSE b

\* cleanupVideoUrl: revoke the URL if there is one (every URL of the model
\* comes from URL.createObjectURL and so starts with 'blob:').
cleanupVideoUrl(url, liveSet) == IF url # NoUrl THEN liveSet \ {url} ELSE liveSet

\* URL.createObjectURL returns a URL that no reference held by the program
\* names yet.
FreshUrls == Urls \ (live \cup {videoUrl, effectUrl})
createObjectURL == CHOOSE u \in FreshUrls : \A v \in FreshUrls : u <= v

\* data || []
OrEmpty(data) == IF Truthy(data) THEN data ELSE JArr(<<>>)

\* ------------------------------------------------- the feedback section
\* The guard with Array.isArray(feedback) alone, without the length test.
FeedbackSectionShownNoLengthTest(fb) ==
    /\ Truthy(fb)
    /\ \/ Truthy(Get(fb, "feedback_per_rep"))
       \/ IsArray(fb)

\* The guard of the feedback section: feedback && (feedback.feedback_per_rep
\* || (Array.isArray(feedback) && feedback.length > 0)).
FeedbackSectionShown(fb) ==
    /\ Truthy(fb)
    /\ \/ Truthy(Get(fb, "feedback_per_rep"))
       \/ (IsArray(fb) /\ Len(fb.items) > 0)

\* selectedExercise.charAt(0).toUpperCase() + selectedExercise.slice(1)
Capitalize(exercise) ==
    CASE exercise = "squat" -> "Squat"
      [] exercise = "deadlift" -> "Deadlift"
      [] exercise = "pushup" -> "Pushup"
      [] exercise = "plank" -> "Plank"
      [] exercise = "lunge" -> "Lunge"

\* x || 0
OrZero(v) == IF Truthy(v) THEN v ELSE JNum(0)

\* The recommendations read from the top level: feedback.recommendations
RecommendationsTopLevel(fb) == Get(fb, "recommendations")

\* feedback.summary?.recommendations
Recommendations(fb) ==
    LET summary == Get(fb, "summary")
    IN IF summary.t \in {"null", "undef"} THEN JUndef
       ELSE Get(summary, "recommendations")

\* React refuses an object as a child ("Objects are not valid as a React
\* child").
ChildThrows(v) == v.t = "obj"

\* rep.score >= n; false for a score that is not a number.
ScoreAtLeast(score, n) == score.t = "num" /\ score.n >= n

\* background of the score badge
BadgeBackground(score) ==
    IF ScoreAtLeast(score, 80) THEN "#dcfce7"
    ELSE IF ScoreAtLeast(score, 60) THEN "#fef3c7" ELSE "#fee2e2"

\* The text colour with its second threshold at 70.
BadgeColorOtherThreshold(score) ==
    IF ScoreAtLeast(score, 80) THEN "#166534"
    ELSE IF ScoreAtLeast(score, 70) THEN "#92400e" ELSE "#dc2626"

\* color of the score badge
BadgeColor(score) ==
    IF ScoreAtLeast(score, 80) THEN "#166534"
    ELSE IF ScoreAtLeast(score, 60) THEN "#92400e" ELSE "#dc2626"

\* The tier a badge colour stands for: green, amber, red.
TierOfBackground(c) ==
    CASE c = "#dcfce7" -> "good" [] c = "#fef3c7" -> "caution"
      [] c = "#fee2e2" -> "concern"
TierOfColor(c) ==
    CASE c = "#166534" -> "good" [] c = "#92400e" -> "caution"
      [] c = "#dc2626" -> "concern"

\* Rendering one element of feedback_per_rep throws: a property read of
\* null or undefined, rep.feedback.map on a value that is not an array, or
\* an object given as a child.
RepThrows(rep) ==
    IF rep.t \in {"null", "undef"} THEN TRUE
    ELSE \/ ChildThrows(Get(rep, "rep"))
         \/ ChildThrows(Get(rep, "score"))
         \/ IF IsArray(Get(rep, "feedback"))
            THEN \E i \in 1..Len(Get(rep, "feedback").items) :
                    ChildThrows(Get(rep, "feedback").items[i])
            ELSE TRUE

\* The block rendered for one element of feedback_per_rep.
RepBlock(rep) ==
    [rep |-> Get(rep, "rep"),
     score |-> Get(rep, "score"),
     background |-> BadgeBackground(Get(rep, "score")),
     color |-> BadgeColor(Get(rep, "score")),
     notes |-> Get(rep, "feedback").items,
     metrics |-> /\ Truthy(Get(rep, "metrics"))
                 /\ Get(rep, "metrics").t = "obj"
                 /\ DOMAIN Get(rep, "metrics").fields # {}]

\* Rendering the feedback section throws.
RenderThrows(fb) ==
    IF ~FeedbackSectionShown(fb) THEN FALSE
    ELSE \/ ChildThrows(OrZero(Get(fb, "reps_detected")))
         \/ ChildThrows(OrZero(Get(fb, "overall_score")))
         \/ /\ Truthy(Recommendations(fb))
            /\ IF IsArray(Recommendations(fb))
               THEN \E i \in 1..Len(Recommendations(fb).items) :
                       ChildThrows(Recommendations(fb).items[i])
               ELSE TRUE
         \/ IF Truthy(Get(fb, "feedback_per_rep"))
            THEN IF IsArray(Get(fb, "feedback_per_rep"))
                 THEN \E i \in 1..Len(Get(fb, "feedback_per_rep").items) :
                         RepThrows(Get(fb, "feedback_per_rep").items[i])
                 ELSE TRUE
            ELSE \E i \in 1..Len(fb.items) : ChildThrows(fb.items[i])

\* What is on screen when the section is absent, and when rendering threw.
EmptyView ==
    [throws |-> FALSE, section |-> FALSE, heading |-> "", summary |-> FALSE,
     exercise |-> "", reps |-> JUndef, score |-> JUndef, recs |-> <<>>,
     repBlocks |-> <<>>, bullets |-> <<>>]
ThrownView == [EmptyView EXCEPT !.throws = TRUE]

\* The feedback section as rendered for feedback fb and category exercise.
FeedbackView(fb, exercise) ==
    IF RenderThrows(fb) THEN ThrownView
    ELSE IF ~FeedbackSectionShown(fb) THEN EmptyView
    ELSE [throws |-> FALSE,
          section |-> TRUE,
          heading |-> Capitalize(exercise),
          summary |-> Truthy(fb),
          exercise |-> Capitalize(exercise),
          reps |-> OrZero(Get(fb, "reps_detected")),
          score |-> OrZero(Get(fb, "overall_score")),
          recs |-> IF Truthy(Recommendations(fb))
                   THEN Recommendations(fb).items ELSE <<>>,
          repBlocks |-> IF Truthy(Get(fb, "feedback_per_rep"))
                        THEN [i \in 1..Len(Get(fb, "feedback_per_rep").items)
                                |-> RepBlock(Get(fb, "feedback_per_rep").items[i])]
                        ELSE <<>>,
          bullets |-> IF Truthy(Get(fb, "feedback_per_rep"))
                      THEN <<>> ELSE fb.items]

\* ----------------------------------------------------------- the handlers
\* The updater without the Math.min: prev => prev >= 90 ? prev : prev + r
ProgressTickUncapped(prev, r) ==
    IF prev >= ProgressCap THEN prev ELSE prev + r

\* The estimator's updater: prev => prev >= 90 ? 90 : Math.min(90, prev + r)
ProgressTick(prev, r) ==
    IF prev >= ProgressCap THEN ProgressCap ELSE Min(ProgressCap, prev + r)

\* React drops state updates of an unmounted component.
Set(old, new) == IF mounted THEN new ELSE old

\* The disabled attribute without the uploading test.
AnalyzeDisabledFileOnly == file = NoFile

\* The button's disabled attribute.
AnalyzeDisabled == file = NoFile \/ uploading

\* A state change of videoUrl has been made and React has not yet re-run the
\* [videoUrl] effect; it does so before any other callback runs.
EffectPending == mounted /\ effectUrl # videoUrl

\* The file and category of the request whose response set the feedback and
\* the preview now held in state; NoRequest when a reset has emptied both.
NoRequest == [file |-> NoFile, exercise |-> "squat"]

\* The preview in the DOM: which video element the page shows (none, the one
\* React rendered, or the one a rebind appended in its place), the URL that
\* element is bound to, the error property of React's element, and whether
\* the element shown has the error and lifecycle handlers attached.
NoError == [code |-> 0, timestamp |-> FALSE]
NoPlayer == [shown |-> "none", url |-> NoUrl, error |-> NoError,
             observers |-> FALSE]

\* MediaError.code: 1 aborted, 2 network, 3 decode, 4 source not supported.
ErrorCodes == 1..4
SrcNotSupported == 4

\* The preview after a render with videoUrl = newUrl: the section is absent
\* for null, created with a fresh video element when videoUrl was null, and
\* otherwise React sets the src of its own element, attached or not.
PlayerAfter(newUrl) ==
    IF newUrl = NoUrl THEN NoPlayer
    ELSE IF videoUrl = NoUrl
         THEN [shown |-> "react", url |-> newUrl, error |-> NoError,
               observers |-> TRUE]
    ELSE IF newUrl = videoUrl THEN player
    ELSE IF player.shown = "react"
         THEN [shown |-> "react", url |-> newUrl, error |-> NoError,
               observers |-> TRUE]
    ELSE [player EXCEPT !.error = NoError]

FreeRequestIds == RequestIds \ {r.id : r \in requests}

TypeOK ==
    /\ file \in Files \cup {NoFile}
    /\ uploading \in BOOLEAN
    /\ feedback \in {OrEmpty(d) : d \in RenderPayloads}
    /\ videoUrl \in Urls \cup {NoUrl}
    /\ progress \in 0..ProgressDone
    /\ selectedExercise \in Exercises
    /\ mounted \in BOOLEAN
    /\ effectUrl \in Urls \cup {NoUrl}
    /\ live \subseteq Urls
    /\ requests \subseteq [id : RequestIds, file : Files, exercise : Exercises]
    /\ intervals \subseteq RequestIds
    /\ timers \in 0..MaxTimers
    /\ shownRequest \in [file : Files \cup {NoFile}, exercise : Exercises]
    /\ player \in [shown : {"none", "react", "rebound"},
                   url : Urls \cup {NoUrl},
                   error : [code : ErrorCodes \cup {0}, timestamp : BOOLEAN],
                   observers : BOOLEAN]

\* ------------------------------------------------------------------- Init

Init ==
    /\ file = NoFile
    /\ uploading = FALSE
    /\ feedback = EmptyFeedback
    /\ videoUrl = NoUrl
    /\ progress = 0
    /\ selectedExercise = "squat"
    /\ mounted = TRUE
    /\ effectUrl = NoUrl
    /\ live = {}
    /\ requests = {}
    /\ intervals = {}
    /\ timers = 0
    /\ lastEvent = "mount"
    /\ shownRequest = NoRequest
    /\ player = NoPlayer

\* ---------------------------------------------------------------- actions

\* The onChange handler without its cleanupVideoUrl call.
SelectFileNoCleanup(newFile) ==
    /\ mounted /\ effectUrl = videoUrl
    /\ newFile \in Files
    /\ file' = newFile
    /\ videoUrl' = NoUrl
    /\ feedback' = EmptyFeedback
    /\ progress' = 0
    /\ lastEvent' = "selectFile"
    /\ shownRequest' = NoRequest
    /\ player' = PlayerAfter(NoUrl)
    /\ UNCHANGED <<uploading, selectedExercise, mounted, effectUrl, live,
                   requests, intervals, timers>>

\* file input onChange with a file chosen.
SelectFile(newFile) ==
    /\ mounted /\ ~EffectPending
    /\ newFile \in Files
    /\ live' = cleanupVideoUrl(videoUrl, live)
    /\ file' = newFile
    /\ videoUrl' = NoUrl
    /\ feedback' = EmptyFeedback
    /\ progress' = 0
    /\ lastEvent' = "selectFile"
    /\ shownRequest' = NoRequest
    /\ player' = PlayerAfter(NoUrl)
    /\ UNCHANGED <<uploading, selectedExercise, mounted, effectUrl,
                   requests, intervals, timers>>

\* file input onChange with the picker cancelled (no file).
CancelPicker ==
    /\ mounted /\ ~EffectPending
    /\ live' = cleanupVideoUrl(videoUrl, live)
    /\ file' = NoFile
    /\ lastEvent' = "cancelPicker"
    /\ UNCHANGED <<player, shownRequest, uploading, feedback, videoUrl, progress, selectedExercise,
                   mounted, effectUrl, requests, intervals, timers>>

\* The select onChange without its setVideoUrl(null).
ChangeExerciseKeepsPreview(e) ==
    /\ mounted /\ effectUrl = videoUrl
    /\ e \in Exercises
    /\ selectedExercise' = e
    /\ feedback' = EmptyFeedback
    /\ progress' = 0
    /\ lastEvent' = "changeExercise"
    /\ shownRequest' = NoRequest
    /\ UNCHANGED <<player, file, uploading, videoUrl, mounted, effectUrl, live,
                   requests, intervals, timers>>

\* select onChange.
ChangeExercise(e) ==
    /\ mounted /\ ~EffectPending
    /\ e \in Exercises
    /\ selectedExercise' = e
    /\ feedback' = EmptyFeedback
    /\ videoUrl' = NoUrl
    /\ progress' = 0
    /\ lastEvent' = "changeExercise"
    /\ shownRequest' = NoRequest
    /\ player' = PlayerAfter(NoUrl)
    /\ UNCHANGED <<file, uploading, mounted, effectUrl, live, requests,
                   intervals, timers>>

\* handleUpload up to the await of fetch.
handleUpload ==
    /\ file # NoFile
    /\ FreeRequestIds # {}
    /\ timers + Cardinality(requests) < MaxTimers
    /\ LET id == CHOOSE i \in FreeRequestIds : \A j \in FreeRequestIds : i <= j
       IN /\ requests' = requests \cup
                 {[id |-> id, file |-> file, exercise |-> selectedExercise]}
          /\ intervals' = intervals \cup {id}
    /\ uploading' = TRUE
    /\ progress' = 0
    /\ lastEvent' = "submit"
    /\ UNCHANGED <<player, shownRequest, file, feedback, videoUrl, selectedExercise, mounted,
                   effectUrl, live, timers>>

\* A click on the Analyze button: ignored while the button is disabled.
ClickAnalyze ==
    /\ mounted /\ ~EffectPending
    /\ IF AnalyzeDisabled
       THEN /\ lastEvent' = "clickIgnored"
            /\ UNCHANGED <<player, shownRequest, file, uploading, feedback, videoUrl, progress,
                           selectedExercise, mounted, effectUrl, live,
                           requests, intervals, timers>>
       ELSE handleUpload

\* One firing of the setInterval callback of request id.
EstimatorTick(id, r) ==
    /\ ~EffectPending
    /\ id \in intervals
    /\ r \in Increments
    /\ progress' = Set(progress, ProgressTick(progress, r))
    /\ lastEvent' = "tick"
    /\ UNCHANGED <<player, shownRequest, file, uploading, feedback, videoUrl, selectedExercise,
                   mounted, effectUrl, live, requests, intervals, timers>>

\* The !res.ok branch without its setProgress(0).
ResponseNotOkKeepsProgress(req) ==
    /\ ~EffectPending
    /\ req \in requests
    /\ requests' = requests \ {req}
    /\ uploading' = Set(uploading, FALSE)
    /\ intervals' = intervals \ {req.id}
    /\ lastEvent' = "httpError"
    /\ UNCHANGED <<player, shownRequest, file, feedback, videoUrl, progress, selectedExercise,
                   mounted, effectUrl, live, timers>>

\* fetch resolved with !res.ok.
ResponseNotOk(req) ==
    /\ ~EffectPending
    /\ req \in requests
    /\ requests' = requests \ {req}
    /\ uploading' = Set(uploading, FALSE)
    /\ progress' = Set(progress, 0)
    /\ intervals' = intervals \ {req.id}
    /\ lastEvent' = "httpError"
    /\ UNCHANGED <<player, shownRequest, file, feedback, videoUrl, selectedExercise, mounted,
                   effectUrl, live, timers>>

\* The catch and finally blocks without the clearInterval.
CatchFinallyKeepsInterval(req) ==
    /\ requests' = requests \ {req}
    /\ progress' = Set(progress, 0)
    /\ uploading' = Set(uploading, FALSE)
    /\ UNCHANGED <<player, shownRequest, file, feedback, videoUrl, selectedExercise, mounted,
                   effectUrl, live, timers, intervals>>

\* The catch block without the finally block's setUploading(false).
CatchFinallyKeepsUploading(req) ==
    /\ requests' = requests \ {req}
    /\ progress' = Set(progress, 0)
    /\ intervals' = intervals \ {req.id}
    /\ UNCHANGED <<player, shownRequest, file, feedback, videoUrl, selectedExercise, mounted,
                   effectUrl, live, timers, uploading>>

\* The catch and finally blocks.
CatchFinally(req) ==
    /\ requests' = requests \ {req}
    /\ progress' = Set(progress, 0)
    /\ uploading' = Set(uploading, FALSE)
    /\ intervals' = intervals \ {req.id}
    /\ UNCHANGED <<player, shownRequest, file, feedback, videoUrl, selectedExercise, mounted,
                   effectUrl, live, timers>>

\* fetch rejected.
TransportError(req) ==
    /\ ~EffectPending
    /\ req \in requests
    /\ CatchFinally(req)
    /\ lastEvent' = "transportError"

\* A body that cannot be decoded taken for an empty result: setFeedback([])
\* before the catch and finally blocks.
DecodeErrorClearsFeedback(req) ==
    /\ ~EffectPending
    /\ req \in requests
    /\ requests' = requests \ {req}
    /\ feedback' = Set(feedback, EmptyFeedback)
    /\ progress' = Set(progress, 0)
    /\ uploading' = Set(uploading, FALSE)
    /\ intervals' = intervals \ {req.id}
    /\ lastEvent' = "decodeError"
    /\ UNCHANGED <<player, shownRequest, file, videoUrl, selectedExercise,
                   mounted, effectUrl, live, timers>>

\* fetch resolved ok and res.json() rejected.
DecodeError(req) ==
    /\ ~EffectPending
    /\ req \in requests
    /\ CatchFinally(req)
    /\ lastEvent' = "decodeError"

\* The success path with the estimator left armed.
ResponseOkKeepsInterval(req, data) ==
    /\ ~EffectPending
    /\ req \in requests
    /\ data \in RenderPayloads
    /\ FreshUrls # {}
    /\ requests' = requests \ {req}
    /\ feedback' = Set(feedback, OrEmpty(data))
    /\ LET url == createObjectURL
       IN /\ live' = live \cup {url}
          /\ videoUrl' = Set(videoUrl, url)
    /\ progress' = Set(progress, ProgressDone)
    /\ timers' = timers + 1
    /\ uploading' = Set(uploading, FALSE)
    /\ lastEvent' = "success"
    /\ shownRequest' = Set(shownRequest, [file |-> req.file, exercise |-> req.exercise])
    /\ player' = Set(player, PlayerAfter(createObjectURL))
    /\ UNCHANGED <<file, selectedExercise, mounted, effectUrl, intervals>>

\* fetch resolved ok and res.json() resolved with data: the rest of the try
\* block, then finally.
ResponseOk(req, data) ==
    /\ ~EffectPending
    /\ req \in requests
    /\ data \in RenderPayloads
    /\ FreshUrls # {}
    /\ requests' = requests \ {req}
    /\ feedback' = Set(feedback, OrEmpty(data))
    /\ LET url == createObjectURL
       IN /\ live' = live \cup {url}
          /\ videoUrl' = Set(videoUrl, url)
    /\ progress' = Set(progress, ProgressDone)
    /\ timers' = timers + 1
    /\ uploading' = Set(uploading, FALSE)
    /\ intervals' = intervals \ {req.id}
    /\ lastEvent' = "success"
    /\ shownRequest' = Set(shownRequest, [file |-> req.file, exercise |-> req.exercise])
    /\ player' = Set(player, PlayerAfter(createObjectURL))
    /\ UNCHANGED <<file, selectedExercise, mounted, effectUrl>>

\* The setTimeout callback that leaves progress as it is.
ResetTimerKeepsProgress ==
    /\ ~EffectPending
    /\ timers > 0
    /\ timers' = timers - 1
    /\ lastEvent' = "resetTimer"
    /\ UNCHANGED <<player, shownRequest, file, uploading, feedback, videoUrl,
                   selectedExercise, mounted, effectUrl, live, requests,
                   intervals, progress>>

\* The setTimeout callback of a success: setProgress(0).
ResetTimer ==
    /\ ~EffectPending
    /\ timers > 0
    /\ timers' = timers - 1
    /\ progress' = Set(progress, 0)
    /\ lastEvent' = "resetTimer"
    /\ UNCHANGED <<player, shownRequest, file, uploading, feedback, videoUrl, selectedExercise,
                   mounted, effectUrl, live, requests, intervals>>

\* React re-runs the [videoUrl] effect after a render that changed videoUrl:
\* the cleanup of the previous render revokes the URL it closed over.
EffectCleanup ==
    /\ EffectPending
    /\ live' = cleanupVideoUrl(effectUrl, live)
    /\ effectUrl' = videoUrl
    /\ lastEvent' = "effectCleanup"
    /\ UNCHANGED <<player, shownRequest, file, uploading, feedback, videoUrl, progress,
                   selectedExercise, mounted, requests, intervals, timers>>

\* The component is unmounted: the effect's cleanup runs a last time.
Unmount ==
    /\ mounted /\ ~EffectPending
    /\ mounted' = FALSE
    /\ live' = cleanupVideoUrl(effectUrl, live)
    /\ lastEvent' = "unmount"
    /\ player' = PlayerAfter(NoUrl)
    /\ UNCHANGED <<shownRequest, file, uploading, feedback, videoUrl, progress,
                   selectedExercise, effectUrl, requests, intervals, timers>>

\* video.onerror (and onloadstart, onloadedmetadata, oncanplay, onloadeddata)
\* of the element React rendered, as copied to the new element: React
\* attaches its handlers as event listeners and never sets these properties,
\* so they are null and the new element gets no handler.
OnErrorProperty == FALSE

\* The onError handler without the test of the code.
PlaybackErrorAnyCode(source, code, timestamp) ==
    /\ mounted /\ effectUrl = videoUrl
    /\ source \in {"react", "rebound"}
    /\ code \in ErrorCodes
    /\ timestamp \in BOOLEAN
    /\ IF source = "react"
       THEN /\ videoUrl # NoUrl
            /\ player' =
                 IF timestamp /\ player.shown = "react"
                 THEN [shown |-> "rebound", url |-> videoUrl,
                       error |-> [code |-> code, timestamp |-> timestamp],
                       observers |-> OnErrorProperty]
                 ELSE [player EXCEPT
                         !.error = [code |-> code, timestamp |-> timestamp]]
       ELSE /\ player.shown = "rebound" /\ ~player.observers
            /\ player' = player
    /\ lastEvent' = "playbackError"
    /\ UNCHANGED <<file, uploading, feedback, videoUrl, progress,
                   selectedExercise, mounted, effectUrl, live, requests,
                   intervals, timers, shownRequest>>

\* The onError handler that gives up the preview: setVideoUrl(null).
PlaybackErrorDropsPreview(source, code, timestamp) ==
    /\ mounted /\ effectUrl = videoUrl
    /\ source \in {"react", "rebound"}
    /\ code \in ErrorCodes
    /\ timestamp \in BOOLEAN
    /\ IF source = "react" THEN videoUrl # NoUrl ELSE player.shown = "rebound"
    /\ videoUrl' = NoUrl
    /\ player' = PlayerAfter(NoUrl)
    /\ lastEvent' = "playbackError"
    /\ UNCHANGED <<file, uploading, feedback, progress, selectedExercise,
                   mounted, effectUrl, live, requests, intervals, timers,
                   shownRequest>>

\* An error event of a video element of the preview: of the element React
\* rendered (its onError handler runs), or of the element a rebind put in
\* its place (whose onerror is the old element's onerror property, which
\* React never sets: no handler runs).
PlaybackError(source, code, timestamp) ==
    /\ mounted /\ ~EffectPending
    /\ source \in {"react", "rebound"}
    /\ code \in ErrorCodes
    /\ timestamp \in BOOLEAN
    /\ IF source = "react"
       THEN /\ videoUrl # NoUrl
            /\ player' =
                 IF code = SrcNotSupported /\ timestamp /\ player.shown = "react"
                 THEN [shown |-> "rebound", url |-> videoUrl,
                       error |-> [code |-> code, timestamp |-> timestamp],
                       observers |-> OnErrorProperty]
                 ELSE [player EXCEPT
                         !.error = [code |-> code, timestamp |-> timestamp]]
       ELSE /\ player.shown = "rebound" /\ ~player.observers
            /\ player' = player
    /\ lastEvent' = "playbackError"
    /\ UNCHANGED <<file, uploading, feedback, videoUrl, progress,
                   selectedExercise, mounted, effectUrl, live, requests,
                   intervals, timers, shownRequest>>

Next ==
    \/ \E f \in Files : SelectFile(f)
    \/ CancelPicker
    \/ \E e \in Exercises : ChangeExercise(e)
    \/ ClickAnalyze
    \/ \E id \in RequestIds, r \in Increments : EstimatorTick(id, r)
    \/ \E req \in requests : ResponseNotOk(req)
    \/ \E req \in requests : TransportError(req)
    \/ \E req \in requests : DecodeError(req)
    \/ \E req \in requests, data \in Payloads : ResponseOk(req, data)
    \/ ResetTimer
    \/ EffectCleanup
    \/ Unmount

Spec == Init /\ [][Next]_vars

\* The page with every response body of RenderPayloads, to exercise the
\* feedback section: selection, category change, submission, the success
\* path and what follows it.
NextRender ==
    \/ \E f \in Files : SelectFile(f)
    \/ \E e \in Exercises : ChangeExercise(e)
    \/ ClickAnalyze
    \/ \E req \in requests, data \in RenderPayloads : ResponseOk(req, data)
    \/ ResetTimer
    \/ EffectCleanup

RenderSpec == Init /\ [][NextRender]_vars

\* The page with the error events of the preview's video elements.
NextPlayback ==
    \/ \E f \in Files : SelectFile(f)
    \/ CancelPicker
    \/ \E e \in Exercises : ChangeExercise(e)
    \/ ClickAnalyze
    \/ \E req \in requests : ResponseNotOk(req)
    \/ \E req \in requests, data \in Payloads : ResponseOk(req, data)
    \/ ResetTimer
    \/ EffectCleanup
    \/ Unmount
    \/ \E source \in {"react", "rebound"}, code \in ErrorCodes,
          timestamp \in BOOLEAN : PlaybackError(source, code, timestamp)

PlaybackSpec == Init /\ [][NextPlayback]_vars

\* The request req settles: fetch resolves with a non-ok status, rejects, or
\* resolves ok with a body that res.json() rejects or decodes.
Settle(req) ==
    \/ ResponseNotOk(req)
    \/ TransportError(req)
    \/ DecodeError(req)
    \/ \E data \in Payloads : ResponseOk(req, data)

\* The page with a network that answers every request and an event loop
\* that runs every due callback: each outstanding request settles, the
\* setTimeout callback fires, React runs a pending effect.
NextLive ==
    \/ \E f \in Files : SelectFile(f)
    \/ CancelPicker
    \/ ClickAnalyze
    \/ \E id \in RequestIds, r \in Increments : EstimatorTick(id, r)
    \/ \E req \in requests : Settle(req)
    \/ ResetTimer
    \/ EffectCleanup
    \/ Unmount

LiveSpec ==
    /\ Init /\ [][NextLive]_vars
    /\ \A id \in RequestIds :
          WF_vars(\E req \in [id : {id}, file : Files, exercise : Exercises] :
                     Settle(req))
    /\ WF_vars(ResetTimer)
    /\ WF_vars(EffectCleanup)

\* ----------------------------------- the page of src/unnamed/part_000
\* The estimator's updater there: prev => prev >= 90 ? prev : prev + r
ProgressTickPart000(prev, r) ==
    IF prev >= ProgressCap THEN prev ELSE prev + r

\* One firing of the setInterval callback of request id.
EstimatorTickPart000(id, r) ==
    /\ ~EffectPending
    /\ id \in intervals
    /\ r \in Increments
    /\ progress' = Set(progress, ProgressTickPart000(progress, r))
    /\ lastEvent' = "tick"
    /\ UNCHANGED <<player, shownRequest, file, uploading, feedback, videoUrl,
                   selectedExercise, mounted, effectUrl, live, requests,
                   intervals, timers>>

\* Response bodies of that page's backend: an object with a feedback list,
\* or without one.
LegacyBody == JObj([feedback |-> OneStringList])
Part000Payloads == {LegacyBody, EmptyObject}

\* fetch resolved ok and res.json() resolved with data: as in the current
\* page, with setFeedback(data.feedback || []).
ResponseOkPart000(req, data) ==
    /\ ~EffectPending
    /\ req \in requests
    /\ data \in Part000Payloads
    /\ FreshUrls # {}
    /\ requests' = requests \ {req}
    /\ feedback' = Set(feedback, OrEmpty(Get(data, "feedback")))
    /\ LET url == createObjectURL
       IN /\ live' = live \cup {url}
          /\ videoUrl' = Set(videoUrl, url)
    /\ progress' = Set(progress, ProgressDone)
    /\ timers' = timers + 1
    /\ uploading' = Set(uploading, FALSE)
    /\ intervals' = intervals \ {req.id}
    /\ lastEvent' = "success"
    /\ shownRequest' = Set(shownRequest, [file |-> req.file, exercise |-> req.exercise])
    /\ player' = Set(player, PlayerAfter(createObjectURL))
    /\ UNCHANGED <<file, selectedExercise, mounted, effectUrl>>

\* That page has no category selector; its other handlers are those of the
\* current page.
NextPart000 ==
    \/ \E f \in Files : SelectFile(f)
    \/ CancelPicker
    \/ ClickAnalyze
    \/ \E id \in RequestIds, r \in Increments : EstimatorTickPart000(id, r)
    \/ \E req \in requests : ResponseNotOk(req)
    \/ \E req \in requests : TransportError(req)
    \/ \E req \in requests, data \in Part000Payloads :
          ResponseOkPart000(req, data)
    \/ ResetTimer
    \/ EffectCleanup
    \/ Unmount

Part000Spec == Init /\ [][NextPart000]_vars

\* ----------------------------------------------------------------- claims

\* C1: in every reachable state at most one preview handle (object URL) is
\* live; a success that replaces a live handle releases the old one before
\* it creates the new one.
C1_AtMostOneLiveHandle == Cardinality(live) <= 1

\* C2: once the view is unmounted and every request and timer has settled,
\* no preview handle is live: none is created after the unmount and every
\* one created before it has been released.
C2_NoLiveHandleAfterUnmount ==
    (~mounted /\ requests = {} /\ timers = 0) => live = {}

\* C3: while a submission is in flight, progress never decreases from one
\* state to the next, whatever event happens in between.
C3_ProgressNonDecreasingInFlight ==
    [][(uploading /\ uploading') => progress' >= progress]_vars

\* A tick from any p <= 90 with any increment in [0,15) stays in p..90.
C4_TickWithinCap ==
    \A p \in 0..ProgressCap, r \in 0..(MaxIncrement - 1) :
        ProgressTick(p, r) \in p..ProgressCap

\* C4: while a submission is in flight progress stays within 0..90; a tick
\* from any p <= 90 with any increment in [0,15) yields a value in p..90;
\* progress is 100 only when no request is outstanding.
C4_ProgressCappedInFlight ==
    /\ uploading => progress \in 0..ProgressCap
    /\ requests # {} => progress # ProgressDone
    /\ C4_TickWithinCap

C4_Witness ==
    uploading /\ lastEvent = "tick" /\ progress = ProgressCap

\* C5: right after the success handler progress is exactly 100, no estimator
\* is armed and the session is not in flight; the reset timer then sets
\* progress to 0 and changes nothing else.
C5_SuccessThenReset ==
    /\ [][(mounted /\ lastEvent' = "success") =>
            (progress' = ProgressDone /\ intervals' = {} /\ ~uploading')]_vars
    /\ [][lastEvent' = "resetTimer" =>
            /\ mounted => progress' = 0
            /\ UNCHANGED <<file, uploading, feedback, videoUrl,
                           selectedExercise, live, requests, intervals,
                           mounted, effectUrl>>]_vars

C5_Witness ==
    /\ mounted /\ lastEvent = "resetTimer" /\ progress = 0 /\ timers = 0
    /\ videoUrl \in live /\ feedback = ScenarioReport /\ ~uploading

\* C6: a click on Analyze while a submission is in flight issues no request,
\* arms no estimator and leaves progress alone; at most one request is
\* outstanding and at most one estimator is armed.
C6_ReentrantSubmitIsNoOp ==
    /\ [](Cardinality(requests) <= 1 /\ Cardinality(intervals) <= 1)
    /\ [][(uploading /\ lastEvent' \in {"submit", "clickIgnored"}) =>
            UNCHANGED <<requests, intervals, progress, uploading>>]_vars

C6_Witness ==
    /\ lastEvent = "clickIgnored" /\ uploading /\ file # NoFile
    /\ Cardinality(requests) = 1 /\ Cardinality(intervals) = 1

\* C7: a submission that ends with a non-success status or a thrown
\* transport error leaves the session not in flight with progress 0, creates
\* no preview handle, and leaves feedback and preview as they were.
C7_FailureKeepsEarlierResult ==
    [][(mounted /\ lastEvent' \in {"httpError", "transportError"}) =>
        /\ ~uploading' /\ progress' = 0
        /\ UNCHANGED <<live, feedback, videoUrl, file>>]_vars

C7_Witness ==
    /\ mounted /\ lastEvent = "httpError" /\ ~uploading /\ progress = 0
    /\ videoUrl \in live /\ feedback = ScenarioReport

\* C8: an estimator is armed only while its request is outstanding, on every
\* exit path; no tick happens once no request is outstanding.
C8_EstimatorStoppedOnExit ==
    /\ [](intervals \subseteq {r.id : r \in requests})
    /\ [][lastEvent' = "tick" => requests # {}]_vars
    /\ [][requests' # requests /\ Cardinality(requests') < Cardinality(requests)
            => intervals' = {}]_vars

C8_Witness ==
    /\ lastEvent = "transportError" /\ requests = {} /\ intervals = {}
    /\ progress = 0

\* C9: selecting a file releases the bound preview handle, stores a file,
\* empties feedback, zeroes progress and unbinds the preview; a preview
\* handle is created by a successful response only.
C9_SelectFileResets ==
    /\ [][lastEvent' = "selectFile" =>
            /\ file' \in Files
            /\ feedback' = EmptyFeedback /\ progress' = 0 /\ videoUrl' = NoUrl
            /\ videoUrl \notin live' /\ live' \subseteq live]_vars
    /\ [][~(live' \subseteq live) => lastEvent' = "success"]_vars

C9_Witness ==
    /\ lastEvent = "selectFile" /\ file \in Files /\ videoUrl = NoUrl
    /\ effectUrl # NoUrl /\ effectUrl \notin live /\ live = {}
    /\ feedback = EmptyFeedback /\ progress = 0

\* C10: cancelling the picker changes the stored file only: feedback,
\* progress, category, in-flight status, the bound preview and the set of
\* live preview handles are as before.
C10_CancelPickerChangesFileOnly ==
    [][lastEvent' = "cancelPicker" =>
        UNCHANGED <<feedback, progress, selectedExercise, uploading,
                    videoUrl, live>>]_vars

\* C11: a category change empties feedback, unbinds the preview and zeroes
\* progress, leaving file and in-flight status alone; the handle the preview
\* was bound to is released by the effect cleanup that runs next; the
\* category is one of the five and is squat initially.
C11_ChangeExerciseResets ==
    /\ [](selectedExercise \in {"squat", "deadlift", "pushup", "plank", "lunge"})
    /\ [](lastEvent = "mount" => selectedExercise = "squat")
    /\ [][lastEvent' = "changeExercise" =>
            /\ feedback' = EmptyFeedback /\ videoUrl' = NoUrl /\ progress' = 0
            /\ UNCHANGED <<file, uploading>>]_vars
    /\ [][(lastEvent = "changeExercise" /\ effectUrl # NoUrl) =>
            (lastEvent' = "effectCleanup" /\ live' = {}
             /\ effectUrl' = NoUrl /\ videoUrl' = NoUrl)]_vars

C11_Witness ==
    /\ lastEvent = "changeExercise" /\ selectedExercise = "lunge"
    /\ effectUrl \in live /\ videoUrl = NoUrl /\ feedback = EmptyFeedback
    /\ progress = 0 /\ file # NoFile /\ uploading

\* C12: whenever the feedback section is displayed, the feedback came from a
\* request submitted with the category that is selected now (the one the
\* heading shows).
C12_FeedbackOfSelectedCategory ==
    (mounted /\ FeedbackSectionShown(feedback)) =>
        /\ FeedbackView(feedback, selectedExercise).heading
             = Capitalize(shownRequest.exercise)
        /\ shownRequest.exercise = selectedExercise

\* C13: whenever a preview is bound, its URL was created from the file that
\* is stored as the selected file now.
C13_PreviewOfSelectedFile ==
    (mounted /\ videoUrl # NoUrl) => shownRequest.file = file

\* C14: the four reference payloads render without throwing: [] and {}
\* render no feedback section, a one-string list renders one bullet and no
\* rep block, a report with three findings renders the summary and three
\* rep blocks.
C14_ReferencePayloadsRender ==
    LET v == FeedbackView(feedback, selectedExercise)
    IN /\ feedback \in {EmptyFeedback, EmptyObject} => v = EmptyView
       /\ feedback = OneStringList =>
            (~v.throws /\ v.section /\ Len(v.bullets) = 1
             /\ v.bullets[1] = JStr("fix your knees") /\ Len(v.repBlocks) = 0)
       /\ feedback = ThreeRepReport =>
            (~v.throws /\ v.section /\ v.summary /\ v.reps = JNum(3)
             /\ v.score = JNum(72) /\ Len(v.repBlocks) = 3
             /\ Len(v.bullets) = 0)

C14_Witness ==
    /\ lastEvent = "success" /\ feedback = ThreeRepReport
    /\ Len(FeedbackView(feedback, selectedExercise).repBlocks) = 3

\* C15: a structured response with a finding that has no notes field renders
\* without throwing, one block per finding, the block of that finding with
\* zero note bullets.
C15_MissingNotesRenderEmpty ==
    LET v == FeedbackView(feedback, selectedExercise)
        findings == Get(feedback, "feedback_per_rep")
    IN (/\ feedback.t = "obj" /\ IsArray(findings)
        /\ \A i \in 1..Len(findings.items) : findings.items[i].t = "obj")
       => /\ ~v.throws
          /\ Len(v.repBlocks) = Len(findings.items)
          /\ \A i \in 1..Len(findings.items) :
                Get(findings.items[i], "feedback") = JUndef
                    => Len(v.repBlocks[i].notes) = 0

\* C16: a response that is neither a list of strings nor an object with a
\* list of per-rep findings renders nothing and raises no error.
C16_UnknownShapeRendersNothing ==
    LET findings == Get(feedback, "feedback_per_rep")
        stringList == /\ IsArray(feedback)
                      /\ \A i \in 1..Len(feedback.items) :
                            feedback.items[i].t = "str"
        report == /\ feedback.t = "obj" /\ IsArray(findings)
                  /\ \A i \in 1..Len(findings.items) :
                        findings.items[i].t = "obj"
    IN ~(stringList \/ report)
         => FeedbackView(feedback, selectedExercise) = EmptyView

\* C17: for every score 0..100 the badge is "good" from 80, "caution" from
\* 60 to 79 and "concern" below 60, and its background and its text colour
\* stand for the same tier; so it is for every rep block on screen.
C17_TierBands ==
    LET tier(n) == IF n >= 80 THEN "good"
                   ELSE IF n >= 60 THEN "caution" ELSE "concern"
        v == FeedbackView(feedback, selectedExercise)
    IN /\ \A n \in 0..100 :
            /\ TierOfBackground(BadgeBackground(JNum(n))) = tier(n)
            /\ TierOfColor(BadgeColor(JNum(n))) = tier(n)
       /\ \A i \in 1..Len(v.repBlocks) :
            v.repBlocks[i].score.t = "num" =>
                /\ TierOfBackground(v.repBlocks[i].background)
                     = tier(v.repBlocks[i].score.n)
                /\ TierOfColor(v.repBlocks[i].color)
                     = tier(v.repBlocks[i].score.n)

C17_Witness ==
    /\ lastEvent = "success" /\ feedback = ScoreReport(79)
    /\ FeedbackView(feedback, selectedExercise).repBlocks[1].color = "#92400e"

\* C18: a file selected under the default category, submitted, answered with
\* the scenario report: the summary shows Squat / 2 / 85, there are two rep
\* blocks of tiers good and caution, one recommendation bullet, and exactly
\* one preview handle is live.
C18_Scenario ==
    LET v == FeedbackView(feedback, selectedExercise)
    IN (/\ mounted /\ lastEvent = "success" /\ feedback = ScenarioReport
        /\ selectedExercise = "squat" /\ shownRequest.exercise = "squat"
        /\ shownRequest.file = file /\ effectUrl = NoUrl)
       => /\ ~v.throws /\ v.section /\ v.summary
          /\ v.exercise = "Squat" /\ v.reps = JNum(2) /\ v.score = JNum(85)
          /\ Len(v.repBlocks) = 2
          /\ TierOfBackground(v.repBlocks[1].background) = "good"
          /\ TierOfColor(v.repBlocks[1].color) = "good"
          /\ TierOfBackground(v.repBlocks[2].background) = "caution"
          /\ TierOfColor(v.repBlocks[2].color) = "caution"
          /\ Len(v.recs) = 1 /\ Len(v.bullets) = 0
          /\ videoUrl # NoUrl /\ live = {videoUrl}

\* C18 as amended: the same scenario; the finding scored 80 is at the
\* threshold of the top band, so both rep blocks are of tier good.
C18_ScenarioAmended ==
    LET v == FeedbackView(feedback, selectedExercise)
    IN (/\ mounted /\ lastEvent = "success" /\ feedback = ScenarioReport
        /\ selectedExercise = "squat" /\ shownRequest.exercise = "squat"
        /\ shownRequest.file = file /\ effectUrl = NoUrl)
       => /\ ~v.throws /\ v.section /\ v.summary
          /\ v.exercise = "Squat" /\ v.reps = JNum(2) /\ v.score = JNum(85)
          /\ Len(v.repBlocks) = 2
          /\ TierOfBackground(v.repBlocks[1].background) = "good"
          /\ TierOfColor(v.repBlocks[1].color) = "good"
          /\ TierOfBackground(v.repBlocks[2].background) = "good"
          /\ TierOfColor(v.repBlocks[2].color) = "good"
          /\ Len(v.recs) = 1 /\ Len(v.bullets) = 0
          /\ videoUrl # NoUrl /\ live = {videoUrl}

C18_Witness ==
    /\ mounted /\ lastEvent = "success" /\ feedback = ScenarioReport
    /\ selectedExercise = "squat" /\ shownRequest.exercise = "squat"
    /\ shownRequest.file = file /\ effectUrl = NoUrl
    /\ Cardinality(live) = 1 /\ progress = ProgressDone

C20_PlaybackErrorKeepsState ==
    [][lastEvent' = "playbackError" =>
        /\ UNCHANGED <<feedback, file, selectedExercise, progress, uploading,
                       videoUrl, live, requests, intervals, timers, mounted>>
        /\ FeedbackSectionShown(feedback') = FeedbackSectionShown(feedback)]_vars

C20_Witness ==
    /\ lastEvent = "playbackError" /\ player.shown = "rebound"
    /\ player.url = videoUrl /\ videoUrl \in live
    /\ FeedbackView(feedback, selectedExercise).section
    /\ uploading /\ file # NoFile

\* The events that end a submission in failure: a non-ok status, a rejected
\* fetch, a body that res.json() cannot decode.
FailureEvents == {"httpError", "transportError", "decodeError"}

\* C21: a failed submission leaves the selected file as it is, issues no
\* request and, with a file still selected, leaves the Analyze button
\* enabled; a request is only ever issued by a click on the enabled button
\* (no automatic retry); and every submission, a retry included, does what a
\* first one does: uploading, progress 0, one request with the selected file
\* and category, its estimator armed, feedback and preview untouched.
C21_ResubmittableAfterFailure ==
    [][/\ (mounted /\ lastEvent' \in FailureEvents) =>
            /\ file' = file
            /\ requests' \subseteq requests /\ requests' # requests
            /\ uploading' = FALSE
            /\ (file' # NoFile => ~(file' = NoFile \/ uploading'))
       /\ (requests' \ requests # {}) =>
            (lastEvent' = "submit" /\ mounted /\ ~AnalyzeDisabled)
       /\ lastEvent' = "submit" =>
            /\ uploading' /\ progress' = 0
            /\ \E id \in FreeRequestIds :
                  /\ requests' = requests \cup
                        {[id |-> id, file |-> file, exercise |-> selectedExercise]}
                  /\ intervals' = intervals \cup {id}
            /\ UNCHANGED <<file, feedback, videoUrl, selectedExercise, live>>]_vars

C21_Witness ==
    /\ lastEvent \in FailureEvents /\ mounted
    /\ file # NoFile /\ ~AnalyzeDisabled
    /\ requests = {} /\ intervals = {} /\ progress = 0

\* C22: when the feedback held is a non-empty list of strings, the section
\* shows one bullet per string, in order, and nothing else: neither the
\* summary block (exercise, reps, score) nor any rep block.
C22_LegacyRendersBulletsOnly ==
    (/\ IsArray(feedback) /\ Len(feedback.items) > 0
     /\ \A i \in 1..Len(feedback.items) : feedback.items[i].t = "str") =>
        LET view == FeedbackView(feedback, selectedExercise)
        IN /\ view.section /\ ~view.throws
           /\ view.bullets = feedback.items
           /\ view.repBlocks = <<>>
           /\ ~view.summary

\* C23: the playback surface a rebind puts in place has the error observer
\* and the lifecycle observers of the surface it replaced, so that an error
\* of the new surface runs the same recovery logic.
C23_ReboundSurfaceHasObservers ==
    player.shown = "rebound" => player.observers

\* C24: in the page of src/unnamed/part_000 too, progress stays within
\* 0..90 while a submission is in flight and is never 100 while a request
\* is outstanding: no tick takes it above 90.
C24_Part000ProgressCapped ==
    /\ uploading => progress \in 0..ProgressCap
    /\ requests # {} => progress # ProgressDone

\* C25: while the view is mounted, a preview reference that is not null
\* names a live handle: the playback surface is never bound to a handle
\* that has been released.
C25_BoundPreviewIsLive ==
    (mounted /\ videoUrl # NoUrl) => videoUrl \in live

\* C26: a success-status response whose body cannot be decoded ends the
\* submission as a transport failure does: the request is settled and its
\* estimator stopped, the mounted view leaves the in-flight state with
\* progress 0, no handle is created, feedback and preview are unchanged.
\* And every settled submission either leaves feedback and preview as they
\* were, or is a success that binds a newly created handle as the preview
\* together with the feedback of its response.
C26_DecodeErrorIsFailure ==
    [][/\ lastEvent' = "decodeError" =>
            /\ requests' \subseteq requests /\ requests' # requests
            /\ \A req \in requests \ requests' : req.id \notin intervals'
            /\ mounted => (~uploading' /\ progress' = 0)
            /\ UNCHANGED <<feedback, videoUrl, live, player, file>>
       /\ lastEvent' \in FailureEvents \cup {"success"} =>
            \/ UNCHANGED <<feedback, videoUrl>>
            \/ /\ lastEvent' = "success"
               /\ videoUrl' # videoUrl /\ videoUrl' \in live' \ live
               /\ feedback' \in {OrEmpty(d) : d \in Payloads}]_vars

C26_Witness ==
    /\ lastEvent = "decodeError" /\ mounted
    /\ FeedbackSectionShown(feedback) /\ videoUrl \in live
    /\ ~uploading /\ progress = 0 /\ requests = {} /\ intervals = {}

\* C27: when every request settles and timers fire, every submission
\* leaves the in-flight state and its estimator is stopped; progress comes
\* back to 0 after every settled submission, and once it is 0 with nothing
\* in flight it stays 0 until the next submission starts. (Of the view while
\* it is mounted: an unmounted component has no state to update.)
C27_SubmissionTerminates ==
    /\ \A id \in RequestIds : (id \in intervals) ~> (id \notin intervals)
    /\ (mounted /\ uploading) ~> (~mounted \/ ~uploading)
    /\ (mounted /\ lastEvent \in FailureEvents \cup {"success"})
            ~> (~mounted \/ progress = 0)
    /\ [][(mounted /\ requests = {} /\ progress = 0 /\ lastEvent' # "submit")
            => progress' = 0]_vars

C27_Witness ==
    /\ mounted /\ lastEvent = "resetTimer" /\ progress = 0
    /\ ~uploading /\ requests = {} /\ intervals = {} /\ timers = 0
    /\ videoUrl \in live

====
